---- MODULE Spec2Model ----
(***************************************************************************)
(* WindTexter server (src/server.py): the steganographic codec.            *)
(*                                                                         *)
(*   Spec      one run of encode_message_to_cover_text (embed): seeding,   *)
(*             the in-place padding loop, chunking, the generation loop    *)
(*             with its stopping policy, and the return.                   *)
(*   SpecCodec text_to_bits followed by bits_to_text (the bit-level codec  *)
(*             round trip) under a configured cipher mode.                 *)
(*   SpecStore store_message requests handled by concurrent threads of the *)
(*             server, each reading and rewriting the log file of a path.  *)
(*                                                                         *)
(* Text is a sequence of character codes (Python ord values), so that the  *)
(* printable-ASCII filter, strip(), split() and count() are computed as    *)
(* the code computes them.                                                 *)
(***************************************************************************)
EXTENDS Integers, Sequences, FiniteSets, TLC

VARIABLES
    pc,               \* position in encode_message_to_cover_text
    caller_bits,      \* the bitstream as the caller built it, before the call
    bit_sequence,     \* the list object passed in (shared with the caller)
    weights,          \* the loaded language model (its weights)
    seed_prompt,      \* index of the style prompt drawn by random.choice
    input_ids,        \* token sequence fed to the model
    generated_tokens, \* filtered text of every generated token
    used_chunks,      \* chunks consumed so far
    bit_chunks,       \* the chunk list built from the padded bitstream
    chunk_i,          \* 1-based index of the next chunk of the for loop
    last,             \* locals of the latest loop iteration
    stopped,          \* TRUE once the stopping policy took the break
    result,           \* the returned (cover text, bits embedded) pair
    cpc,              \* position in the codec round trip
    text,             \* plaintext given to text_to_bits
    mode,             \* DEFAULT_ENCRYPTION_MODE (from the configuration)
    enc,              \* outcome of text_to_bits
    dec,              \* outcome of bits_to_text
    enc_iv,           \* iv handed to the Encryptor by text_to_bits
    dec_iv,           \* iv handed to the Encryptor by bits_to_text
    files,            \* the log file of every delivery path, on disk
    rq,               \* every store_message request: position and locals
    completed,        \* per path, the messages in the order their writes completed
    stored            \* the requests answered "stored"

embedVars == <<pc, caller_bits, bit_sequence, weights, seed_prompt, input_ids,
               generated_tokens, used_chunks, bit_chunks, chunk_i, last,
               stopped, result>>
codecVars == <<cpc, text, mode, enc, dec, enc_iv, dec_iv>>
storeVars == <<files, rq, completed, stored>>
vars == <<pc, caller_bits, bit_sequence, weights, seed_prompt, input_ids,
          generated_tokens, used_chunks, bit_chunks, chunk_i, last,
          stopped, result, cpc, text, mode, enc, dec, enc_iv, dec_iv,
          files, rq, completed, stored>>

(***************************************************************************)
(* Bounds of the model.                                                    *)
(***************************************************************************)
\* every bitstream of length 0..MaxLen is an input
MaxLen == 6
\* bitstreams that repeat one chunk value up to MaxChunks times are inputs too
MaxChunks == 22
\* the language models considered: weights 0..MaxWeight
MaxWeight == 1
\* plaintexts of up to MaxTextLen characters
MaxTextLen == 3
\* store_message requests 1..MaxRequests
MaxRequests == 3

(***************************************************************************)
(* Program constants.                                                      *)
(***************************************************************************)
CHUNK_SIZE == 4

Min(a, b) == IF a <= b THEN a ELSE b

RECURSIVE Pow2(_)
Pow2(n) == IF n = 0 THEN 1 ELSE 2 * Pow2(n - 1)

TOP_K == Pow2(CHUNK_SIZE)

\* the number of style prompts
NumPrompts == 5

\* the word-count limit and the terminal-mark limit of the stopping policy
WordLimit == 20
MarkLimit == 2

(***************************************************************************)
(* Text helpers: Python str operations on sequences of character codes.    *)
(***************************************************************************)
\* str.isprintable() for one character, code points 0..255
IsPrintable(c) == \/ (c >= 32 /\ c <= 126)
                  \/ (c >= 161 /\ c <= 255 /\ c /= 173)

\* the filter of line 240: char.isprintable() and ord(char) < 128
KeepChar(c) == IsPrintable(c) /\ c < 128

FilterToken(s) == SelectSeq(s, KeepChar)

\* str.isspace() for one character, code points 0..255
IsSpace(c) == c \in {9, 10, 11, 12, 13, 28, 29, 30, 31, 32, 133, 160}

RECURSIVE Join(_)
Join(tokens) == IF tokens = <<>> THEN <<>>
                ELSE Head(tokens) \o Join(Tail(tokens))

RECURSIVE LStrip(_)
LStrip(s) == IF s /= <<>> /\ IsSpace(Head(s)) THEN LStrip(Tail(s)) ELSE s

RECURSIVE RStrip(_)
RStrip(s) == IF s /= <<>> /\ IsSpace(s[Len(s)])
             THEN RStrip(SubSeq(s, 1, Len(s) - 1)) ELSE s

Strip(s) == RStrip(LStrip(s))

\* s.count(c) for a one-character c
CountChar(s, c) == Cardinality({i \in DOMAIN s : s[i] = c})

\* len(s.split()): the maximal runs of non-whitespace characters
WordCount(s) == Cardinality({i \in DOMAIN s :
                    /\ ~IsSpace(s[i])
                    /\ (i = 1 \/ IsSpace(s[i - 1]))})

\* the condition of line 246 on joined
ShouldStop_late(joined) ==
    \/ CountChar(joined, 46) + CountChar(joined, 33) + CountChar(joined, 63) >= MarkLimit + 1
    \/ WordCount(joined) > WordLimit + 1
ShouldStop(joined) ==
    \/ CountChar(joined, 46) + CountChar(joined, 33) + CountChar(joined, 63) >= MarkLimit
    \/ WordCount(joined) > WordLimit

(***************************************************************************)
(* The tokenizer and the language model (external; abstracted).            *)
(***************************************************************************)
\* size of the vocabulary: token ids 0..VocabSize-1
VocabSize == 17

\* tokenizer.decode([t], skip_special_tokens=True): the text of one token
Decode(t) ==
    CASE t = 0  -> <<>>                  \* the special end-of-text token
      [] t = 1  -> <<32, 97>>            \* " a"
      [] t = 2  -> <<32, 98>>            \* " b"
      [] t = 3  -> <<46>>                \* "."
      [] t = 4  -> <<33>>                \* "!"
      [] t = 5  -> <<63>>                \* "?"
      [] t = 6  -> <<32>>                \* " "
      [] t = 7  -> <<10>>                \* newline: not printable
      [] t = 8  -> <<233>>               \* e-acute: printable, not ASCII
      [] t = 9  -> <<32, 97, 233>>       \* " a" + e-acute
      [] t = 10 -> <<97>>                \* "a"
      [] t = 11 -> <<32, 97, 46>>        \* " a."
      [] t = 12 -> <<32, 98, 97>>        \* " ba"
      [] t = 13 -> <<44>>                \* ","
      [] t = 14 -> <<10, 10>>            \* two newlines
      [] t = 15 -> <<32, 226, 128>>      \* " " + two non-ASCII characters
      [] OTHER  -> <<32, 97>>            \* " a"

\* tokenizer.encode(seed_prompt): the token ids of style prompt p
PromptIds(p) == [i \in 1..(p + 1) |-> (p * i) % VocabSize]

\* outputs.logits[:, -1, :]: one score per vocabulary token, a function of
\* the weights and the whole input; all scores of one call are distinct
Logits(w, ids) ==
    [t \in 0..(VocabSize - 1) |->
        (t + w * (ids[Len(ids)] + Len(ids))) % VocabSize]

\* torch.topk(logits, k).indices.tolist(): the k best tokens, best first
TopK(logits, k) ==
    LET ids    == [i \in 1..Cardinality(DOMAIN logits) |-> i - 1]
        ranked == SortSeq(ids, LAMBDA a, b : logits[a] > logits[b])
    IN  SubSeq(ranked, 1, Min(k, Len(ranked)))

(***************************************************************************)
(* Bit helpers.                                                            *)
(***************************************************************************)
\* int(''.join(map(str, chunk)), 2): the first bit is the most significant
RECURSIVE ChunkValue(_)
ChunkValue_little(chunk) ==
    IF chunk = <<>> THEN 0
    ELSE Head(chunk) + 2 * ChunkValue(Tail(chunk))
ChunkValue(chunk) ==
    IF chunk = <<>> THEN 0
    ELSE 2 * ChunkValue(SubSeq(chunk, 1, Len(chunk) - 1)) + chunk[Len(chunk)]

\* the slices bit_sequence[i:i + CHUNK_SIZE] for i in range(0, len, CHUNK_SIZE)
Chunks_short(seq) ==
    [j \in 1..((Len(seq) + CHUNK_SIZE - 1) \div CHUNK_SIZE) |->
        SubSeq(seq, CHUNK_SIZE * (j - 1) + 1, Min(CHUNK_SIZE * j - 1, Len(seq)))]
Chunks(seq) ==
    [j \in 1..((Len(seq) + CHUNK_SIZE - 1) \div CHUNK_SIZE) |->
        SubSeq(seq, CHUNK_SIZE * (j - 1) + 1, Min(CHUNK_SIZE * j, Len(seq)))]

\* the condition of the padding loop; seq is the caller's list
NeedsPad_doWhile(seq) == Len(seq) % CHUNK_SIZE /= 0 \/ seq = caller_bits
NeedsPad(seq) == Len(seq) % CHUNK_SIZE /= 0

\* bit_sequence.append(0)
PadAppend_front(seq) == <<0>> \o seq
PadAppend(seq) == Append(seq, 0)

\* sorted_indices[target_index % len(sorted_indices)], Python indexing from 0
Select(sorted_indices, target_index) ==
    sorted_indices[(target_index % Len(sorted_indices)) + 1]

\* torch.cat([input_ids, next_token_tensor], dim=1)
ExtendContext_reset(ids, token_id) == <<token_id>>
ExtendContext(ids, token_id) == Append(ids, token_id)

\* used_chunks * CHUNK_SIZE, the second component of the returned pair
BitsEmbedded_next(u) == (u + 1) * CHUNK_SIZE
BitsEmbedded(u) == u * CHUNK_SIZE

(***************************************************************************)
(* Inputs of one embed run.                                                *)
(***************************************************************************)
Bit == {0, 1}

BitSeqs(n) == UNION {[1..k -> Bit] : k \in 0..n}

\* the chunk value v written as CHUNK_SIZE bits, most significant first
ChunkOf(v) == [k \in 1..CHUNK_SIZE |-> (v \div Pow2(CHUNK_SIZE - k)) % 2]

Repeat(c, k) == [i \in 1..(k * Len(c)) |-> c[((i - 1) % Len(c)) + 1]]

Inputs == BitSeqs(MaxLen)
          \cup {Repeat(ChunkOf(v), k) : v \in 0..(TOP_K - 1), k \in 1..MaxChunks}

NoStep == [chunk |-> <<>>, target_index |-> -1, sorted_indices |-> <<>>,
           token_id |-> -1, token_raw |-> <<>>]

NoResult == [kind |-> "none"]

(***************************************************************************)
(* encode_message_to_cover_text(bit_sequence)                              *)
(***************************************************************************)
\* lines 223-226: draw the style prompt, build the context, reset the locals
Seed ==
    /\ pc = "start"
    /\ \E p \in 1..NumPrompts :
          /\ seed_prompt' = p
          /\ input_ids' = PromptIds(p)
    /\ generated_tokens' = <<>>
    /\ used_chunks' = 0
    /\ pc' = "pad"
    /\ UNCHANGED <<caller_bits, bit_sequence, weights, bit_chunks, chunk_i,
                   last, stopped, result>>
    /\ UNCHANGED codecVars
    /\ UNCHANGED storeVars

\* lines 228-229: one iteration of the padding loop, on the caller's list
PadStep ==
    /\ pc = "pad"
    /\ NeedsPad(bit_sequence)
    /\ bit_sequence' = PadAppend(bit_sequence)
    /\ UNCHANGED <<pc, caller_bits, weights, seed_prompt, input_ids,
                   generated_tokens, used_chunks, bit_chunks, chunk_i, last,
                   stopped, result>>
    /\ UNCHANGED codecVars
    /\ UNCHANGED storeVars

\* line 230: the padding loop has ended; slice the list into chunks
MakeChunks ==
    /\ pc = "pad"
    /\ ~NeedsPad(bit_sequence)
    /\ bit_chunks' = Chunks(bit_sequence)
    /\ chunk_i' = 1
    /\ pc' = "loop"
    /\ UNCHANGED <<caller_bits, bit_sequence, weights, seed_prompt, input_ids,
                   generated_tokens, used_chunks, last, stopped, result>>
    /\ UNCHANGED codecVars
    /\ UNCHANGED storeVars

\* lines 232-247: one iteration of the for loop over bit_chunks
Step ==
    /\ pc = "loop"
    /\ chunk_i <= Len(bit_chunks)
    /\ LET chunk          == bit_chunks[chunk_i]
           target_index   == ChunkValue(chunk)
           logits         == Logits(weights, input_ids)
           sorted_indices == TopK(logits, TOP_K)
           token_id       == Select(sorted_indices, target_index)
           token_raw      == Decode(token_id)
           token_str      == FilterToken(token_raw)
           tokens         == Append(generated_tokens, token_str)
           joined         == Strip(Join(tokens))
       IN  /\ generated_tokens' = tokens
           /\ used_chunks' = used_chunks + 1
           /\ input_ids' = ExtendContext(input_ids, token_id)
           /\ last' = [chunk |-> chunk, target_index |-> target_index,
                       sorted_indices |-> sorted_indices,
                       token_id |-> token_id, token_raw |-> token_raw]
           /\ IF ShouldStop(joined)
              THEN /\ pc' = "ret"
                   /\ stopped' = TRUE
              ELSE /\ pc' = "loop"
                   /\ stopped' = FALSE
    /\ chunk_i' = chunk_i + 1
    /\ UNCHANGED <<caller_bits, bit_sequence, weights, seed_prompt, bit_chunks,
                   result>>
    /\ UNCHANGED codecVars
    /\ UNCHANGED storeVars

\* line 232: the for loop has run out of chunks
LoopExit ==
    /\ pc = "loop"
    /\ chunk_i > Len(bit_chunks)
    /\ pc' = "ret"
    /\ UNCHANGED <<caller_bits, bit_sequence, weights, seed_prompt, input_ids,
                   generated_tokens, used_chunks, bit_chunks, chunk_i, last,
                   stopped, result>>
    /\ UNCHANGED codecVars
    /\ UNCHANGED storeVars

\* line 248: return the trimmed text and the bits-embedded count
Return ==
    /\ pc = "ret"
    /\ result' = [kind |-> "returned",
                  cover_text |-> Strip(Join(generated_tokens)),
                  bits |-> BitsEmbedded(used_chunks)]
    /\ pc' = "done"
    /\ UNCHANGED <<caller_bits, bit_sequence, weights, seed_prompt, input_ids,
                   generated_tokens, used_chunks, bit_chunks, chunk_i, last,
                   stopped>>
    /\ UNCHANGED codecVars
    /\ UNCHANGED storeVars

\* valid_paths of validate_path
ValidPaths == {"email", "sms", "windtexter"}

Requests == 1..MaxRequests

\* a log file that does not exist
NoFile == [state |-> "absent", db |-> <<>>]

\* a request that has not arrived
IdleRequest == [pc |-> "idle", path |-> "", db |-> <<>>]

\* the server before any store_message request: no log file exists
StoreParked ==
    /\ files = [p \in ValidPaths |-> NoFile]
    /\ rq = [r \in Requests |-> IdleRequest]
    /\ completed = [p \in ValidPaths |-> <<>>]
    /\ stored = {}

CodecParked ==
    /\ cpc = "off"
    /\ text = <<>>
    /\ mode = "ECB"
    /\ enc = [kind |-> "none"]
    /\ dec = [kind |-> "none"]
    /\ enc_iv = <<>>
    /\ dec_iv = <<>>

Init ==
    /\ pc = "start"
    /\ bit_sequence \in Inputs
    /\ caller_bits = bit_sequence
    /\ weights \in 0..MaxWeight
    /\ seed_prompt = 0
    /\ input_ids = <<>>
    /\ generated_tokens = <<>>
    /\ used_chunks = 0
    /\ bit_chunks = <<>>
    /\ chunk_i = 0
    /\ last = NoStep
    /\ stopped = FALSE
    /\ result = NoResult
    /\ CodecParked
    /\ StoreParked

Next == Seed \/ PadStep \/ MakeChunks \/ Step \/ LoopExit \/ Return

Spec == Init /\ [][Next]_vars

(***************************************************************************)
(* The bit-level codec: text_to_bits and bits_to_text.                     *)
(* Compressor and Encryptor live in packages outside this file; they are   *)
(* modelled from their contract: compress/decompress are exact inverses,   *)
(* encrypt/decrypt are inverses under the same mode, key and IV, and a     *)
(* mode that needs an IV cannot run without one.                           *)
(***************************************************************************)
\* DEFAULT_KEY and DEFAULT_IV, shortened to one byte each
DEFAULT_KEY == <<1, 0, 1, 1, 0, 0, 1, 0>>
DEFAULT_IV == <<0, 1, 1, 0, 1, 0, 0, 1>>

\* Python's None for the iv argument
NoIV == <<>>

\* the cipher modes the configuration may name
Modes == {"ECB", "OFB"}

RequiresIV(m) == m = "OFB"

\* the characters plaintexts are made of: "h", "i", "!"
TextChars == {104, 105, 33}

\* the plaintexts: at least one character
Texts == UNION {[1..k -> TextChars] : k \in 1..MaxTextLen}

\* one byte as eight bits, most significant first
ByteBits(c) == [k \in 1..8 |-> (c \div Pow2(8 - k)) % 2]

\* Compressor(method).compress(text) for the utf8 method
RECURSIVE Compress(_)
Compress(t) == IF t = <<>> THEN <<>>
               ELSE ByteBits(Head(t)) \o Compress(Tail(t))

\* Compressor(method).decompress(bits) for the utf8 method
RECURSIVE Decompress(_)
Decompress(bits) ==
    IF Len(bits) < 8 THEN <<>>
    ELSE <<ChunkValue(SubSeq(bits, 1, 8))>>
         \o Decompress(SubSeq(bits, 9, Len(bits)))

Xor(a, b) == (a + b) % 2

\* the key stream of a mode: from the key alone, or from the key and the IV
KeyStream(m, key, iv, i) ==
    IF RequiresIV(m)
    THEN Xor(key[((i - 1) % Len(key)) + 1], iv[((i - 1) % Len(iv)) + 1])
    ELSE key[((i - 1) % Len(key)) + 1]

\* Encryptor(mode, key, key_length, iv).encrypt(bits)
Encrypt(bits, m, key, iv) ==
    IF RequiresIV(m) /\ iv = NoIV
    THEN [kind |-> "error", error |-> "EncryptionFailure"]
    ELSE [kind |-> "bits",
          bits |-> [i \in 1..Len(bits) |-> Xor(bits[i], KeyStream(m, key, iv, i))]]

\* Encryptor(mode, key, key_length, iv).decrypt(bits)
Decrypt(bits, m, key, iv) ==
    IF RequiresIV(m) /\ iv = NoIV
    THEN [kind |-> "error", error |-> "DecryptionFailure"]
    ELSE [kind |-> "bits",
          bits |-> [i \in 1..Len(bits) |-> Xor(bits[i], KeyStream(m, key, iv, i))]]

\* line 167: the iv text_to_bits hands to the Encryptor
EncodeIv(m) == IF m = "OFB" THEN DEFAULT_IV ELSE NoIV

\* line 193: the iv bits_to_text hands to the Encryptor
DecodeIv(m) == NoIV

\* text_to_bits(text)
TextToBits ==
    /\ cpc = "start"
    /\ enc_iv' = EncodeIv(mode)
    /\ enc' = Encrypt(Compress(text), mode, DEFAULT_KEY, EncodeIv(mode))
    /\ cpc' = "encoded"
    /\ UNCHANGED <<text, mode, dec, dec_iv>>
    /\ UNCHANGED embedVars
    /\ UNCHANGED storeVars

\* bits_to_text(bits) on the bitstream text_to_bits returned
BitsToText ==
    /\ cpc = "encoded"
    /\ enc.kind = "bits"
    /\ dec_iv' = DecodeIv(mode)
    /\ LET decrypted == Decrypt(enc.bits, mode, DEFAULT_KEY, DecodeIv(mode))
       IN  dec' = IF decrypted.kind = "error"
                  THEN decrypted
                  ELSE [kind |-> "text", text |-> Decompress(decrypted.bits)]
    /\ cpc' = "decoded"
    /\ UNCHANGED <<text, mode, enc, enc_iv>>
    /\ UNCHANGED embedVars
    /\ UNCHANGED storeVars

EmbedParked ==
    /\ pc = "off"
    /\ bit_sequence = <<>>
    /\ caller_bits = <<>>
    /\ weights = 0
    /\ seed_prompt = 0
    /\ input_ids = <<>>
    /\ generated_tokens = <<>>
    /\ used_chunks = 0
    /\ bit_chunks = <<>>
    /\ chunk_i = 0
    /\ last = NoStep
    /\ stopped = FALSE
    /\ result = NoResult

InitCodec ==
    /\ cpc = "start"
    /\ text \in Texts
    /\ mode \in Modes
    /\ enc = [kind |-> "none"]
    /\ dec = [kind |-> "none"]
    /\ enc_iv = NoIV
    /\ dec_iv = NoIV
    /\ EmbedParked
    /\ StoreParked

NextCodec == TextToBits \/ BitsToText

SpecCodec == InitCodec /\ [][NextCodec]_vars

(***************************************************************************)
(* store_message: the message log of a delivery path.  The server runs     *)
(* app.run(), which serves every request on a thread of its own; a         *)
(* handler's file operations interleave with those of the other handlers.  *)
(***************************************************************************)
\* validate_path(delivery_path)
validate_path(delivery_path) == delivery_path \in ValidPaths

\* alias_map.get(raw_path, raw_path)
AliasPath(raw_path) ==
    CASE raw_path = "send_email" -> "email"
      [] raw_path = "send_sms"   -> "sms"
      [] OTHER                   -> raw_path

\* the delivery_path values requests carry (already lower case)
RawPaths == {"email", "send_email", "sms", "generic"}

\* lines 555-562: the list read from the file; a missing file and a file
\* whose content is not JSON (opened for writing, nothing dumped yet) both
\* give the empty list
LoadDb(f, mine) == IF f.state = "json" THEN f.db ELSE <<>>

\* lines 497-553: take the request, resolve and validate its path
Receive(r) ==
    /\ rq[r].pc = "idle"
    /\ \E raw \in RawPaths :
          LET path == AliasPath(raw)
          IN  rq' = [rq EXCEPT ![r] =
                        IF validate_path(path)
                        THEN [pc |-> "read", path |-> path, db |-> <<>>]
                        ELSE [pc |-> "rejected", path |-> path, db |-> <<>>]]
    /\ UNCHANGED <<files, completed, stored>>
    /\ UNCHANGED embedVars
    /\ UNCHANGED codecVars

\* lines 555-564: read the log of the path and append the message to the copy
ReadFile(r) ==
    /\ rq[r].pc = "read"
    /\ rq' = [rq EXCEPT ![r].db = Append(LoadDb(files[rq[r].path], rq[r].db), r),
                        ![r].pc = "open"]
    /\ UNCHANGED <<files, completed, stored>>
    /\ UNCHANGED embedVars
    /\ UNCHANGED codecVars

\* line 566: open(path_file, 'w') creates the file or empties it
OpenWrite(r) ==
    /\ rq[r].pc = "open"
    /\ files' = [files EXCEPT ![rq[r].path] = [state |-> "truncated", db |-> <<>>]]
    /\ rq' = [rq EXCEPT ![r].pc = "dump"]
    /\ UNCHANGED <<completed, stored>>
    /\ UNCHANGED embedVars
    /\ UNCHANGED codecVars

\* line 567: json.dump(db, f) and the close of the file
DumpFile(r) ==
    /\ rq[r].pc = "dump"
    /\ files' = [files EXCEPT ![rq[r].path] = [state |-> "json", db |-> rq[r].db]]
    /\ completed' = [completed EXCEPT ![rq[r].path] = Append(@, r)]
    /\ rq' = [rq EXCEPT ![r].pc = "respond"]
    /\ UNCHANGED stored
    /\ UNCHANGED embedVars
    /\ UNCHANGED codecVars

\* line 570: answer {"status": "stored"}
Respond(r) ==
    /\ rq[r].pc = "respond"
    /\ stored' = stored \cup {r}
    /\ rq' = [rq EXCEPT ![r].pc = "done"]
    /\ UNCHANGED <<files, completed>>
    /\ UNCHANGED embedVars
    /\ UNCHANGED codecVars

InitStore ==
    /\ StoreParked
    /\ EmbedParked
    /\ CodecParked

NextStore ==
    \E r \in Requests :
        Receive(r) \/ ReadFile(r) \/ OpenWrite(r) \/ DumpFile(r) \/ Respond(r)

SpecStore == InitStore /\ [][NextStore]_vars

(***************************************************************************)
(* Properties of one embed run (checked under Spec).                       *)
(***************************************************************************)
\* ceil(n / CHUNK_SIZE)
CeilDiv(n) == (n + CHUNK_SIZE - 1) \div CHUNK_SIZE

\* the number of zero bits that bring n up to a multiple of CHUNK_SIZE
PadCount(n) == (CHUNK_SIZE - (n % CHUNK_SIZE)) % CHUNK_SIZE

Zeros(k) == [i \in 1..k |-> 0]

Chunked == pc \in {"loop", "ret", "done"}

\* the stopping policy took the break while chunks were still unconsumed
StoppedEarly == stopped /\ used_chunks < CeilDiv(Len(caller_bits))

\* C1: the returned bits-embedded count is chunks_consumed * chunk_width; it
\* is at most the length of the padded bitstream, and equals that length in
\* every run where the stopping policy does not trigger before the last chunk.
C1_BitsEmbeddedBound ==
    pc = "done" =>
        /\ result.bits = used_chunks * CHUNK_SIZE
        /\ result.bits <= Len(bit_sequence)
        /\ Len(bit_sequence) = CHUNK_SIZE * CeilDiv(Len(caller_bits))
        /\ (~StoppedEarly => result.bits = Len(bit_sequence))

\* C1 witness: a run that stopped early and reports fewer bits than the
\* padded bitstream holds.
C1_Witness ==
    /\ pc = "done"
    /\ StoppedEarly
    /\ result.bits > 0
    /\ result.bits < Len(bit_sequence)

\* C2 (as claimed): the bits-embedded count is at most the length of the
\* bitstream as the caller supplied it, before padding.
C2_Original ==
    pc = "done" => result.bits <= Len(caller_bits)

\* C2 (amended): the bits-embedded count exceeds the supplied length by at
\* most chunk_width - 1 bits (it is bounded by the padded length), and is at
\* most the supplied length when that length is a multiple of chunk_width.
C2_Amended ==
    pc = "done" =>
        /\ result.bits <= Len(caller_bits) + (CHUNK_SIZE - 1)
        /\ (Len(caller_bits) % CHUNK_SIZE = 0 => result.bits <= Len(caller_bits))

\* C2 witness: a finished run whose count is larger than the supplied length.
C2_Witness ==
    /\ pc = "done"
    /\ Len(caller_bits) % CHUNK_SIZE /= 0
    /\ result.bits > Len(caller_bits)

\* C3: a bitstream of length n is split into exactly ceil(n / chunk_width)
\* chunks of exactly chunk_width bits, in the original bit order, only the
\* tail of the last chunk being zero padding; a run the stopping policy never
\* ends consumes all of them.
C3_ChunkPadding ==
    Chunked =>
        /\ Len(bit_chunks) = CeilDiv(Len(caller_bits))
        /\ \A j \in 1..Len(bit_chunks) :
              /\ Len(bit_chunks[j]) = CHUNK_SIZE
              /\ \A k \in 1..CHUNK_SIZE :
                    bit_chunks[j][k] =
                        IF CHUNK_SIZE * (j - 1) + k <= Len(caller_bits)
                        THEN caller_bits[CHUNK_SIZE * (j - 1) + k]
                        ELSE 0
        /\ (pc = "done" /\ ~stopped => used_chunks = CeilDiv(Len(caller_bits)))

\* C3 witness: six bits (ending in 1) become two chunks, the second ending
\* in two zero bits, and both are consumed.
C3_Witness ==
    /\ pc = "done"
    /\ ~stopped
    /\ Len(caller_bits) = 6
    /\ caller_bits[6] = 1
    /\ Len(bit_chunks) = 2
    /\ bit_chunks[2] = <<caller_bits[5], 1, 0, 0>>
    /\ used_chunks = 2

\* C4 (as claimed): the padding zeros are placed in front of the original
\* bits, so the last original bit is the last bit of the final chunk.
C4_Original ==
    Chunked =>
        /\ bit_sequence = Zeros(PadCount(Len(caller_bits))) \o caller_bits
        /\ (caller_bits /= <<>> =>
               bit_chunks[Len(bit_chunks)][CHUNK_SIZE] = caller_bits[Len(caller_bits)])

\* C4 (amended): the padding zeros are appended after the original bits
\* until the length is a multiple of chunk_width, so the original bits
\* occupy the start of the padded stream and the first original bit is the
\* first bit of the first chunk.
C4_Amended ==
    /\ \E k \in 0..(CHUNK_SIZE - 1) : bit_sequence = caller_bits \o Zeros(k)
    /\ Chunked =>
          /\ bit_sequence = caller_bits \o Zeros(PadCount(Len(caller_bits)))
          /\ Len(bit_sequence) % CHUNK_SIZE = 0
          /\ (caller_bits /= <<>> => bit_chunks[1][1] = caller_bits[1])

\* C4 witness: a padded stream whose last original bit is 1 and is followed
\* by zeros.
C4_Witness ==
    /\ pc = "loop"
    /\ Len(caller_bits) = 5
    /\ caller_bits[5] = 1
    /\ bit_sequence = caller_bits \o <<0, 0, 0>>

\* the sentence-terminal marks ".", "!" and "?" of a text, counted together
TerminalMarks(s) == Cardinality({i \in DOMAIN s : s[i] \in {46, 33, 63}})

\* the words of a text, counted by where they end
Words(s) == Cardinality({i \in DOMAIN s :
                /\ ~IsSpace(s[i])
                /\ (i = Len(s) \/ IsSpace(s[i + 1]))})

PolicyHolds(s) == TerminalMarks(s) >= 2 \/ Words(s) > 20

\* C5: after a step has appended its token and text, an accumulated text
\* with at least two terminal marks or more than 20 words ends the loop at
\* once; no chunk is consumed after that, even if chunks remain, and the
\* bits-embedded count covers exactly the chunks consumed up to that step.
C5_StoppingPolicy ==
    [][ /\ (pc = "loop" /\ used_chunks' = used_chunks + 1
               /\ PolicyHolds(Join(generated_tokens')))
           => (pc' = "ret" /\ stopped')
        /\ (pc \in {"ret", "done"})
           => (pc' \in {"ret", "done"} /\ used_chunks' = used_chunks
                   /\ generated_tokens' = generated_tokens)
        /\ (pc' = "done")
           => result'.bits = used_chunks' * CHUNK_SIZE ]_vars

\* C5 witness: the policy ended a ten-chunk run after its fifth chunk, and
\* the run reports the bits of five chunks.
C5_Witness ==
    /\ pc = "done"
    /\ stopped
    /\ Len(bit_chunks) = 10
    /\ used_chunks = 5
    /\ TerminalMarks(Join(generated_tokens)) = 2
    /\ result.bits = 5 * CHUNK_SIZE

\* C6 (as claimed): embed of an empty bitstream fails with EmptyBitstream
\* and returns no result.
C6_EmptyBitstreamFails ==
    caller_bits = <<>> => result.kind /= "returned"

\* C7 (as claimed): after embed has returned, the caller's bitstream has
\* the same length and the same bits as before the call.
C7_BitstreamImmutable ==
    pc = "done" => bit_sequence = caller_bits

\* C9: the token sequence of the context only grows at its end, by exactly
\* one token per consumed chunk, and its length is always the seed prompt's
\* length plus the chunks consumed, whatever the filter keeps of the token.
C9_ContextAppendOnly ==
    /\ [](pc \notin {"start", "off"} =>
            /\ Len(input_ids) = Len(PromptIds(seed_prompt)) + used_chunks
            /\ Len(generated_tokens) = used_chunks
            /\ SubSeq(input_ids, 1, Len(PromptIds(seed_prompt))) = PromptIds(seed_prompt))
    /\ [][ pc \notin {"start", "off"} =>
            \/ (input_ids' = input_ids /\ used_chunks' = used_chunks)
            \/ /\ used_chunks' = used_chunks + 1
               /\ Len(input_ids') = Len(input_ids) + 1
               /\ SubSeq(input_ids', 1, Len(input_ids)) = input_ids ]_vars

\* C9 witness: the filter dropped every character of the latest token, and
\* the count and the context still advanced.
C9_Witness ==
    /\ used_chunks >= 2
    /\ last.token_raw /= <<>>
    /\ generated_tokens[used_chunks] = <<>>
    /\ input_ids[Len(input_ids)] = last.token_id
    /\ Len(input_ids) = Len(PromptIds(seed_prompt)) + used_chunks

\* the value of a chunk read most significant bit first
RECURSIVE BigEndian(_)
BigEndian(c) == IF c = <<>> THEN 0
                ELSE Head(c) * Pow2(Len(c) - 1) + BigEndian(Tail(c))

\* the context the latest step ran the model on
PrevContext == SubSeq(input_ids, 1, Len(input_ids) - 1)

\* C10: the chunk is read as an unsigned big-endian integer i; the candidate
\* set holds the 2^chunk_width best tokens by descending score, without
\* repetition; i is below its length, so the token picked is candidates[i]
\* and the modulo changes nothing; chunk 1011 picks candidates[11].
C10_Selection ==
    used_chunks >= 1 =>
        LET i == BigEndian(last.chunk)
            c == last.sorted_indices
            scores == Logits(weights, PrevContext)
        IN  /\ Len(last.chunk) = CHUNK_SIZE
            /\ last.target_index = i
            /\ Len(c) = Pow2(CHUNK_SIZE)
            /\ i < Len(c)
            /\ last.token_id = c[i + 1]
            /\ \A a, b \in 1..Len(c) : a < b => scores[c[a]] >= scores[c[b]]
            /\ \A a, b \in 1..Len(c) : a /= b => c[a] /= c[b]
            /\ \A t \in DOMAIN scores :
                  (\A a \in 1..Len(c) : c[a] /= t) => scores[t] <= scores[c[Len(c)]]
            /\ (last.chunk = <<1, 0, 1, 1>> => last.token_id = c[12])

\* C10 witness: the bitstream 1011 is one chunk of value 11 and picks the
\* twelfth candidate.
C10_Witness ==
    /\ caller_bits = <<1, 0, 1, 1>>
    /\ used_chunks = 1
    /\ last.chunk = <<1, 0, 1, 1>>
    /\ last.target_index = 11
    /\ last.token_id = last.sorted_indices[12]

(***************************************************************************)
(* Property of the codec round trip (checked under SpecCodec).             *)
(***************************************************************************)
\* C8 (as claimed): bits_to_text of text_to_bits of a plaintext returns the
\* plaintext, decode running with the same IV that encode used.
C8_RoundTrip ==
    cpc = "decoded" =>
        /\ dec_iv = enc_iv
        /\ dec.kind = "text"
        /\ dec.text = text

(***************************************************************************)
(* Property of the message log (checked under SpecStore).                  *)
(***************************************************************************)
\* the messages of seq that were answered "stored"
StoredOf(seq) == SelectSeq(seq, LAMBDA m : m \in stored)

\* no handler has the log of p open for writing
Settled(p) == \A r \in Requests : ~(rq[r].pc = "dump" /\ rq[r].path = p)

\* C11 (as claimed): whenever no write of a path's log is under way, the log
\* holds every message answered "stored" for that path, in the order the
\* writes completed, also when requests for the path were handled
\* concurrently.
C11_NoStoredMessageLost ==
    \A p \in ValidPaths :
        Settled(p) => StoredOf(files[p].db) = StoredOf(completed[p])
====
